---- MODULE Spec2Model ----
(***************************************************************************)
(* Model of the ledger of src/blockchain.py (Block, Blockchain) and of the *)
(* MINE / VALIDATE answers of src/server.py.                               *)
(*                                                                         *)
(* Sequences are 1-based: chain[1] is the genesis block, and the block at  *)
(* Python position i is chain[i+1].                                        *)
(***************************************************************************)
EXTENDS Integers, Sequences, FiniteSets, TLC

VARIABLES
    chain,          \* Blockchain.chain: sequence of blocks
    difficulty,     \* Blockchain.difficulty
    pending_data,   \* Blockchain.pending_data: sequence of payloads
    pc,             \* "idle", or "mining" while mine_pending_data is in _proof_of_work
    new_block,      \* the local new_block of an in-flight mine_pending_data: <<>> or <<b>>
    op,             \* the call that completed last
    ret_block,      \* the block it returned, when it was mine_pending_data: <<>> is None
    ret_bool,       \* the bool it returned, when it was replace_chain or is_chain_valid
    response,       \* "status" of the server's answer, when it came through the server
    staged,         \* history: every payload passed to add_data, in call order
    raised,         \* the exception the last call ended with: "" when it returned
    probe,          \* history: <<>>, or the input and the ledger before an observed call
    tamper          \* history: the out-of-band mutation applied to a sealed block

vars == <<chain, difficulty, pending_data, pc, new_block, op,
          ret_block, ret_bool, response, raised, staged, probe, tamper>>

---------------------------------------------------------------------------
(* Bounds of the model *)

\* number of add_data calls in a run
MaxStaged == 2
\* the clock time.time() reads a value in 0..MaxTime
MaxTime == 1
\* number of characters of a digest (64 for a SHA-256 hexdigest)
HexLen == 2
\* longest candidate chain a peer builds for replace_chain
MaxCandidate == 3

\* number of distinct digit strings of a digest; the digits are binary here
\* (a hexdigest has 16 possible characters)
Modulus == 2 ^ HexLen
\* the nonce search is cut off here (it is unbounded in the code)
MaxNonce == Modulus
\* difficulties a ledger is constructed with; HexLen + 1 exceeds the digest length
MaxDifficulty == HexLen + 1

Times == 0..MaxTime
Payloads == {"P1", "P2"}

---------------------------------------------------------------------------
(* Values *)

\* a Python str payload
Str(s) == [kind |-> "str", val |-> <<s>>]
\* a Python list payload
List(seq) == [kind |-> "list", val |-> seq]

\* data="Genesis Block"
GenesisData == Str("Genesis Block")

\* previous_hash="0": a one-character string that is no digest
Sentinel == [hex |-> <<0>>, pre |-> <<>>]

---------------------------------------------------------------------------
(* Block.calculate_hash *)

\* json.dumps({...}, sort_keys=True): the five fields, keyed by name
Dumps(b) ==
    [data |-> b.data, index |-> b.index, nonce |-> b.nonce,
     previous_hash |-> b.previous_hash, timestamp |-> b.timestamp]

PayloadCode(p) ==
    CASE p = "P1" -> 1
      [] p = "P2" -> 2
      [] OTHER -> 0

RECURSIVE SeqCode(_)
SeqCode(s) ==
    IF s = <<>> THEN 0
    ELSE PayloadCode(s[1]) + 3 * SeqCode(Tail(s))

\* the number a digit string reads as
RECURSIVE DigitsValue(_)
DigitsValue(ds) ==
    IF ds = <<>> THEN 0
    ELSE ds[Len(ds)] + 2 * DigitsValue(SubSeq(ds, 1, Len(ds) - 1))

\* the number the digest's characters are derived from
Mix(s) ==
    (3 * s.index + 5 * s.timestamp + SeqCode(s.data.val)
       + 7 * DigitsValue(s.previous_hash.hex) + s.nonce) % Modulus

\* v written with HexLen digits, most significant first
Digits(v) == [i \in 1..HexLen |-> (v \div (2 ^ (HexLen - i))) % 2]

\* hashlib.sha256(...).hexdigest(): a string of HexLen digits; pre stands for
\* the rest of the digest, which makes digests of different inputs differ
Sha256(s) == [hex |-> Digits(Mix(s)), pre |-> <<s>>]

CalculateHash(b) == Sha256(Dumps(b))

\* Block.__init__
Block(index, timestamp, data, previous_hash, nonce) ==
    LET b == [index |-> index, timestamp |-> timestamp, data |-> data,
              previous_hash |-> previous_hash, nonce |-> nonce]
    IN  [index |-> index, timestamp |-> timestamp, data |-> data,
         previous_hash |-> previous_hash, nonce |-> nonce,
         hash |-> CalculateHash(b)]

\* Block.to_dict
ToDict(b) ==
    [index |-> b.index, timestamp |-> b.timestamp, data |-> b.data,
     previous_hash |-> b.previous_hash, nonce |-> b.nonce, hash |-> b.hash]

\* Block.from_dict: block_dict["hash"] is not read
FromDict(block_dict) ==
    Block(block_dict.index, block_dict.timestamp, block_dict.data,
          block_dict.previous_hash, block_dict.nonce)

---------------------------------------------------------------------------
(* Blockchain *)

\* "0" * self.difficulty
Target(d) == [i \in 1..d |-> 0]

\* block.hash.startswith(target)
StartsWith(h, target) ==
    /\ Len(target) <= Len(h.hex)
    /\ SubSeq(h.hex, 1, Len(target)) = target

\* Blockchain._create_genesis_block
GenesisBlock(t) == Block(0, t, GenesisData, Sentinel, 0)

\* Blockchain.get_latest_block
GetLatestBlock(c) == c[Len(c)]

\* the loop body stepping the nonce by two
PowIterateSkip(b) ==
    LET n == [b EXCEPT !.nonce = b.nonce + 2]
    IN  [n EXCEPT !.hash = CalculateHash(n)]

\* the loop body with its two statements swapped: the hash is that of the
\* nonce before the increment
PowIterateSwapped(b) ==
    [b EXCEPT !.hash = CalculateHash(b), !.nonce = b.nonce + 1]

\* one iteration of the while loop of _proof_of_work
PowIterate(b) ==
    LET n == [b EXCEPT !.nonce = b.nonce + 1]
    IN  [n EXCEPT !.hash = CalculateHash(n)]

\* Blockchain._proof_of_work run to its end (cut off at nonce MaxNonce)
RECURSIVE ProofOfWork(_, _)
ProofOfWork(b, d) ==
    IF StartsWith(b.hash, Target(d)) \/ b.nonce >= MaxNonce THEN b
    ELSE ProofOfWork(PowIterate(b), d)

\* is_chain_valid without the comparison of previous_hash
RECURSIVE ValidFromNoLink(_, _, _)
ValidFromNoLink(c, d, i) ==
    IF i > Len(c) THEN TRUE
    ELSE IF c[i].hash # CalculateHash(c[i]) THEN FALSE
    ELSE IF ~StartsWith(c[i].hash, Target(d)) THEN FALSE
    ELSE ValidFromNoLink(c, d, i + 1)

IsChainValidNoLink(c, d) == ValidFromNoLink(c, d, 2)

\* is_chain_valid without the comparison of the stored hash
RECURSIVE ValidFromNoHash(_, _, _)
ValidFromNoHash(c, d, i) ==
    IF i > Len(c) THEN TRUE
    ELSE IF c[i].previous_hash # c[i - 1].hash THEN FALSE
    ELSE IF ~StartsWith(c[i].hash, Target(d)) THEN FALSE
    ELSE ValidFromNoHash(c, d, i + 1)

IsChainValidNoHash(c, d) == ValidFromNoHash(c, d, 2)

\* the body of the for loop of is_chain_valid, from position i on
RECURSIVE ValidFrom(_, _, _)
ValidFrom(c, d, i) ==
    IF i > Len(c) THEN TRUE
    ELSE IF c[i].hash # CalculateHash(c[i]) THEN FALSE
    ELSE IF c[i].previous_hash # c[i - 1].hash THEN FALSE
    ELSE IF ~StartsWith(c[i].hash, Target(d)) THEN FALSE
    ELSE ValidFrom(c, d, i + 1)

\* Blockchain.is_chain_valid: range(1, len(self.chain))
IsChainValid(c, d) == ValidFrom(c, d, 2)

\* Blockchain.get_chain_data
GetChainData(c) == [i \in 1..Len(c) |-> ToDict(c[i])]

NoTamper == [kind |-> "none", pos |-> 0, field |-> ""]

---------------------------------------------------------------------------
(* Candidate chains handed to replace_chain *)

\* how a serialized block may deviate from what an honest peer would send
Deviations == {"none", "index", "previous_hash", "nonce", "hash"}

\* the element a peer puts after the serialized chain c: a block built on the
\* last block of c and mined for difficulty d, except for the deviation
PeerDict(c, d, dev) ==
    LET prev == FromDict(c[Len(c)])
        i == IF dev = "index" THEN Len(c) + 1 ELSE Len(c)
        ph == IF dev = "previous_hash" THEN Sentinel ELSE prev.hash
        fresh == Block(i, 0, List(<<"P1">>), ph, 0)
        b == IF dev = "nonce" THEN fresh ELSE ProofOfWork(fresh, d)
    IN  IF dev = "hash" THEN [ToDict(b) EXCEPT !.hash = prev.hash]
        ELSE ToDict(b)

\* c and what peers make of it by adding elements up to MaxCandidate, at most
\* one of them deviating (devs: the deviations still allowed)
RECURSIVE Extensions(_, _, _)
Extensions(c, d, devs) ==
    IF Len(c) >= MaxCandidate THEN {c}
    ELSE {c} \cup Extensions(Append(c, PeerDict(c, d, "none")), d, devs)
             \cup UNION {Extensions(Append(c, PeerDict(c, d, dev)), d, {}) :
                            dev \in devs}

\* first elements of chains that do not start from this ledger's genesis: the
\* genesis of another ledger, and a first element that is no genesis block
ForeignGenesis ==
    {ToDict(GenesisBlock(MaxTime + 1)),
     ToDict(Block(0, 0, List(<<"P2">>), GenesisBlock(0).hash, 0))}

\* the inputs of replace_chain: the empty list; the prefixes of the ledger's
\* own serialized chain, extended; the foreign first elements, extended by
\* honest peers
Candidates(c, d) ==
    {<<>>}
    \cup UNION {Extensions(SubSeq(GetChainData(c), 1, k), d, Deviations \ {"none"}) :
                  k \in 1..Len(c)}
    \cup UNION {Extensions(<<g>>, d, {}) : g \in ForeignGenesis}

---------------------------------------------------------------------------
(* Operations *)

Init ==
    /\ difficulty \in 0..MaxDifficulty
    /\ \E t \in Times : chain = <<GenesisBlock(t)>>
    /\ pending_data = <<>>
    /\ pc = "idle"
    /\ new_block = <<>>
    /\ op = "init"
    /\ ret_block = <<>>
    /\ ret_bool = FALSE
    /\ response = ""
    /\ raised = ""
    /\ staged = <<>>
    /\ probe = <<>>
    /\ tamper = NoTamper

\* add_data putting the payload at the front of the pending list
AddDataFront(p) ==
    /\ Len(staged) < MaxStaged
    /\ pending_data' = <<p>> \o pending_data
    /\ staged' = Append(staged, p)
    /\ op' = "add_data"
    /\ ret_block' = <<>>
    /\ ret_bool' = FALSE
    /\ response' = "success"
    /\ UNCHANGED <<chain, difficulty, pc, new_block>>

\* Blockchain.add_data, reached through the server's ADD
AddData(p) ==
    /\ Len(staged) < MaxStaged
    /\ pending_data' = Append(pending_data, p)
    /\ staged' = Append(staged, p)
    /\ op' = "add_data"
    /\ ret_block' = <<>>
    /\ ret_bool' = FALSE
    /\ response' = "success"
    /\ UNCHANGED <<chain, difficulty, pc, new_block>>

\* the status of the server's answer to MINE
MineStatus(block) == IF block # <<>> THEN "success" ELSE "info"

\* mine_pending_data with nothing staged: return None
MineNothing ==
    /\ pc = "idle"
    /\ pending_data = <<>>
    /\ op' = "mine_pending_data"
    /\ ret_block' = <<>>
    /\ ret_bool' = FALSE
    /\ response' = MineStatus(<<>>)
    /\ UNCHANGED <<chain, difficulty, pending_data, pc, new_block, staged>>

\* mine_pending_data building the block on the sentinel, not on the last hash
MineStartNoLink(t) ==
    /\ pc = "idle"
    /\ pending_data # <<>>
    /\ new_block' = <<Block(Len(chain), t, List(pending_data), Sentinel, 0)>>
    /\ pc' = "mining"
    /\ UNCHANGED <<chain, difficulty, pending_data, op, ret_block,
                   ret_bool, response, staged>>

\* mine_pending_data without the early return on an empty pending list
MineStartUnguarded(t) ==
    /\ pc = "idle"
    /\ new_block' = <<Block(Len(chain), t, List(pending_data),
                            GetLatestBlock(chain).hash, 0)>>
    /\ pc' = "mining"
    /\ UNCHANGED <<chain, difficulty, pending_data, op, ret_block,
                   ret_bool, response, staged>>

\* mine_pending_data clearing the pending list before the search, not after
MineStartTakesPending(t) ==
    /\ pc = "idle"
    /\ pending_data # <<>>
    /\ new_block' = <<Block(Len(chain), t, List(pending_data),
                            GetLatestBlock(chain).hash, 0)>>
    /\ pending_data' = <<>>
    /\ pc' = "mining"
    /\ UNCHANGED <<chain, difficulty, op, ret_block, ret_bool, response, staged>>

\* mine_pending_data up to the call of _proof_of_work: the block is built
MineStart(t) ==
    /\ pc = "idle"
    /\ pending_data # <<>>
    /\ new_block' = <<Block(Len(chain), t, List(pending_data),
                            GetLatestBlock(chain).hash, 0)>>
    /\ pc' = "mining"
    /\ UNCHANGED <<chain, difficulty, pending_data, op, ret_block,
                   ret_bool, response, staged>>

\* one iteration of the nonce search
PowStep ==
    /\ pc = "mining"
    /\ ~StartsWith(new_block[1].hash, Target(difficulty))
    /\ new_block[1].nonce < MaxNonce
    /\ new_block' = <<PowIterate(new_block[1])>>
    /\ UNCHANGED <<chain, difficulty, pending_data, pc, op, ret_block,
                   ret_bool, response, staged>>

\* the end of mine_pending_data reached before the search has met the target
MineFinishUnmined ==
    /\ pc = "mining"
    /\ chain' = Append(chain, new_block[1])
    /\ pending_data' = <<>>
    /\ pc' = "idle"
    /\ new_block' = <<>>
    /\ op' = "mine_pending_data"
    /\ ret_block' = new_block
    /\ ret_bool' = FALSE
    /\ response' = MineStatus(new_block)
    /\ UNCHANGED <<difficulty, staged>>

\* the end of mine_pending_data without the reset of the pending list
MineFinishKeepPending ==
    /\ pc = "mining"
    /\ StartsWith(new_block[1].hash, Target(difficulty))
    /\ chain' = Append(chain, new_block[1])
    /\ pc' = "idle"
    /\ new_block' = <<>>
    /\ op' = "mine_pending_data"
    /\ ret_block' = new_block
    /\ ret_bool' = FALSE
    /\ response' = MineStatus(new_block)
    /\ UNCHANGED <<difficulty, pending_data, staged>>

\* the search has ended: append, clear the pending list, return the block
MineFinish ==
    /\ pc = "mining"
    /\ StartsWith(new_block[1].hash, Target(difficulty))
    /\ chain' = Append(chain, new_block[1])
    /\ pending_data' = <<>>
    /\ pc' = "idle"
    /\ new_block' = <<>>
    /\ op' = "mine_pending_data"
    /\ ret_block' = new_block
    /\ ret_bool' = FALSE
    /\ response' = MineStatus(new_block)
    /\ UNCHANGED <<difficulty, staged>>

\* is_chain_valid, reached through the server's VALIDATE
Validate ==
    /\ pc = "idle"
    /\ ret_bool' = IsChainValid(chain, difficulty)
    /\ op' = "is_chain_valid"
    /\ ret_block' = <<>>
    /\ response' = "success"
    /\ UNCHANGED <<chain, difficulty, pending_data, pc, new_block, staged>>

\* new_chain of replace_chain: the loop over new_chain_data
NewChain(new_chain_data) ==
    [i \in 1..Len(new_chain_data) |-> FromDict(new_chain_data[i])]

\* replace_chain starting the adopted ledger with an empty pending list
ReplaceChainClearsPending(new_chain_data) ==
    LET new_chain == NewChain(new_chain_data)
    IN  /\ IF /\ Len(new_chain) > Len(chain)
              /\ IsChainValid(new_chain, difficulty)
           THEN /\ chain' = new_chain
                /\ pending_data' = <<>>
                /\ ret_bool' = TRUE
           ELSE /\ chain' = chain
                /\ pending_data' = pending_data
                /\ ret_bool' = FALSE
        /\ op' = "replace_chain"
        /\ ret_block' = <<>>
        /\ response' = ""
        /\ UNCHANGED <<difficulty, pc, new_block, staged>>

\* replace_chain adopting a valid candidate that is as long as the chain
ReplaceChainNotShorter(new_chain_data) ==
    LET new_chain == NewChain(new_chain_data)
    IN  /\ IF /\ Len(new_chain) >= Len(chain)
              /\ IsChainValid(new_chain, difficulty)
           THEN /\ chain' = new_chain
                /\ ret_bool' = TRUE
           ELSE /\ chain' = chain
                /\ ret_bool' = FALSE
        /\ op' = "replace_chain"
        /\ ret_block' = <<>>
        /\ response' = ""
        /\ UNCHANGED <<difficulty, pending_data, pc, new_block, staged>>

\* Blockchain.replace_chain
ReplaceChain(new_chain_data) ==
    LET new_chain == NewChain(new_chain_data)
        \* Blockchain(self.difficulty) with .chain overwritten
        temp_blockchain == [chain |-> new_chain, difficulty |-> difficulty]
    IN  /\ IF /\ Len(new_chain) > Len(chain)
              /\ IsChainValid(temp_blockchain.chain, temp_blockchain.difficulty)
           THEN /\ chain' = new_chain
                /\ ret_bool' = TRUE
           ELSE /\ chain' = chain
                /\ ret_bool' = FALSE
        /\ op' = "replace_chain"
        /\ ret_block' = <<>>
        /\ response' = ""
        /\ UNCHANGED <<difficulty, pending_data, pc, new_block, staged>>

\* one server command (ADD, MINE, VALIDATE), or one step of it, of the
\* single-threaded server
LocalStep ==
    \/ pc = "idle" /\ \E p \in Payloads : AddData(p)
    \/ MineNothing
    \/ \E t \in Times : MineStart(t)
    \/ PowStep
    \/ MineFinish
    \/ Validate

\* one call, or one step of a call, on the ledger, calls running one at a time
Step ==
    \/ LocalStep
    \/ pc = "idle" /\ \E c \in Candidates(chain, difficulty) : ReplaceChain(c)

Next == Step /\ UNCHANGED <<raised, probe, tamper>>

Spec == Init /\ [][Next]_vars

\* the server of src/server.py: it offers no command that calls replace_chain
NextServer == LocalStep /\ UNCHANGED <<raised, probe, tamper>>

SpecServer == Init /\ [][NextServer]_vars

\* the payloads of the blocks after the first, in chain order
RECURSIVE Sealed(_)
Sealed(c) ==
    IF Len(c) <= 1 THEN <<>>
    ELSE Sealed(SubSeq(c, 1, Len(c) - 1)) \o c[Len(c)].data.val

---------------------------------------------------------------------------
(* Claims about calls that run one at a time: specifications Spec, SpecServer *)

\* C1: in every reachable state, every block after the first names the hash
\* of the block before it: chain[i].previous_hash = chain[i-1].hash.
C1_HashChainLink ==
    \A i \in 2..Len(chain) : chain[i].previous_hash = chain[i - 1].hash

\* a candidate of full length has been adopted
C1_Witness ==
    /\ op = "replace_chain"
    /\ ret_bool = TRUE
    /\ Len(chain) = MaxCandidate

\* C2: in every reachable state chain is non-empty and the block at Python
\* position i has index i.
C2_ChainShape ==
    /\ Len(chain) >= 1
    /\ \A i \in 1..Len(chain) : chain[i].index = i - 1

\* C3: in every reachable state the first block has previous_hash "0" and
\* data "Genesis Block".
C3_Genesis ==
    /\ chain[1].previous_hash = Sentinel
    /\ chain[1].data = GenesisData

\* C12: in every reachable state every block of chain, the first included,
\* has a hash that begins with difficulty characters '0'.
C12_ProofOfWorkAll ==
    \A i \in 1..Len(chain) : StartsWith(chain[i].hash, Target(difficulty))

\* C6: a mine_pending_data that finds pending data appends exactly one block,
\* with index the former length, previous_hash the former last hash and data
\* the payloads staged since the last successful mine (those of the history
\* staged that no earlier block holds), in order; it returns that block and
\* leaves pending_data empty; add_data changes no sealed block.
C6_SuccessfulMine ==
    [][/\ (pc = "mining" /\ pc' = "idle") =>
            /\ Len(chain') = Len(chain) + 1
            /\ SubSeq(chain', 1, Len(chain)) = chain
            /\ chain'[Len(chain')].index = Len(chain)
            /\ chain'[Len(chain')].previous_hash = chain[Len(chain)].hash
            /\ chain'[Len(chain')].data = List(pending_data)
            /\ chain'[Len(chain')].data.val # <<>>
            /\ Sealed(chain) \o chain'[Len(chain')].data.val = staged
            /\ pending_data' = <<>>
            /\ ret_block' = <<chain'[Len(chain')]>>
       /\ op' = "add_data" => chain' = chain]_vars

\* P1 then P2 were staged and sealed in one block
C6_Witness ==
    /\ op = "mine_pending_data"
    /\ ret_block # <<>>
    /\ ret_block[1].data = List(<<"P1", "P2">>)
    /\ chain[Len(chain)] = ret_block[1]
    /\ pending_data = <<>>

\* C7: a mine_pending_data called with nothing staged returns None, is
\* answered with status "info" and changes neither chain nor pending_data nor
\* difficulty; no block sealed by mining has empty data.
C7_MineNothingStaged ==
    [][/\ (/\ pc = "idle"
           /\ pending_data = <<>>
           /\ (pc' = "mining" \/ (op' = "mine_pending_data" /\ op' # op))) =>
            /\ pc' = "idle"
            /\ ret_block' = <<>>
            /\ response' = "info"
            /\ UNCHANGED <<chain, pending_data, difficulty>>
       /\ (pc = "mining" /\ pc' = "idle") =>
            chain'[Len(chain')].data.val # <<>>]_vars

\* a mine call has returned None
C7_Witness ==
    /\ op = "mine_pending_data"
    /\ ret_block = <<>>
    /\ response = "info"
    /\ pending_data = <<>>

\* C18: on the fresh ledger and in every state that add_data,
\* mine_pending_data and replace_chain, run one at a time, lead to,
\* is_chain_valid returns True.
C18_ValidOnUntampered ==
    /\ IsChainValid(chain, difficulty)
    /\ op = "is_chain_valid" => ret_bool = TRUE

\* is_chain_valid has returned True on a chain adopted from a peer (its
\* second block does not carry index 1) and then extended by a mine
C18_Witness ==
    /\ op = "is_chain_valid"
    /\ ret_bool = TRUE
    /\ Len(chain) >= 3
    /\ chain[2].index # 1
    /\ chain[Len(chain)].data = List(<<"P2">>)

\* C19: with add_data and mine_pending_data run one at a time and no
\* replace_chain, the data of chain[1], chain[2], ... in order, followed by
\* pending_data, is the sequence of the payloads passed to add_data, in call
\* order, each once.
C19_PayloadConservation == Sealed(chain) \o pending_data = staged

\* P2 was staged and mined, then P1 was staged and is pending
C19_Witness ==
    /\ Len(chain) = 2
    /\ chain[2].data = List(<<"P2">>)
    /\ pending_data = <<"P1">>
    /\ pc = "idle"

\* block b is what a least-nonce search from nonce 0 has reached: its hash
\* is that of its fields and no smaller nonce gives a hash of d leading zeros
LeastSoFar(b, d) ==
    /\ b.hash = CalculateHash(b)
    /\ \A n \in 0..(b.nonce - 1) :
          ~StartsWith(CalculateHash([b EXCEPT !.nonce = n]), Target(d))

\* C17: the nonce search, started on a block with nonce 0, leaves index,
\* timestamp, data and previous_hash alone and returns the block with the
\* least nonce whose hash begins with difficulty characters '0', hash set to
\* that hash; the result is a function of the initial fields and the
\* difficulty (nonce 0 for difficulty 0).
C17_LeastNonce ==
    /\ pc = "mining" =>
          /\ LeastSoFar(new_block[1], difficulty)
          /\ new_block[1].index = Len(chain)
          /\ new_block[1].data = List(pending_data)
          /\ new_block[1].previous_hash = GetLatestBlock(chain).hash
    /\ \A i \in 2..Len(chain) :
          /\ LeastSoFar(chain[i], difficulty)
          /\ StartsWith(chain[i].hash, Target(difficulty))
          /\ chain[i] = ProofOfWork(Block(chain[i].index, chain[i].timestamp,
                                         chain[i].data, chain[i].previous_hash, 0),
                                   difficulty)
          /\ difficulty = 0 => chain[i].nonce = 0

\* a search for a hash of HexLen zeros that took two iterations or more
C17_Witness ==
    /\ difficulty = HexLen
    /\ Len(chain) >= 2
    /\ chain[2].nonce >= 2
    /\ op = "mine_pending_data"

---------------------------------------------------------------------------
(* A run of the program, ended by one observed call of replace_chain: the
   input and the chain before the call are kept in probe *)

ObserveReplaceChain ==
    /\ pc = "idle"
    /\ \E c \in Candidates(chain, difficulty) :
          /\ ReplaceChain(c)
          /\ probe' = <<[new_chain_data |-> c, chain |-> chain]>>
    /\ UNCHANGED <<raised, tamper>>

NextReplace ==
    \/ probe = <<>> /\ Next
    \/ probe = <<>> /\ ObserveReplaceChain

SpecReplace == Init /\ [][NextReplace]_vars

\* what the rule "strictly longer and fully valid" asks of the blocks of a
\* candidate: every block after the first carries the hash of its fields,
\* names the hash of the block before it, and has a hash of d leading zeros
CandidateValid(blocks, d) ==
    \A i \in 2..Len(blocks) :
        /\ blocks[i].hash = CalculateHash(blocks[i])
        /\ blocks[i].previous_hash = blocks[i - 1].hash
        /\ Len(blocks[i].hash.hex) >= d
        /\ \A k \in 1..d : blocks[i].hash.hex[k] = 0

\* C4: replace_chain adopts the candidate and returns True if and only if the
\* candidate is strictly longer than chain and valid under the ledger's
\* difficulty; otherwise it returns False and chain is what it was.
C4_ReplaceIff ==
    probe # <<>> =>
        LET c == probe[1].new_chain_data
            before == probe[1].chain
        IN  IF Len(c) > Len(before) /\ CandidateValid(NewChain(c), difficulty)
            THEN chain = NewChain(c) /\ ret_bool = TRUE
            ELSE chain = before /\ ret_bool = FALSE

\* a candidate two blocks longer than the chain has been adopted
C4_Witness ==
    /\ probe # <<>>
    /\ Len(probe[1].new_chain_data) = Len(probe[1].chain) + 2
    /\ chain = NewChain(probe[1].new_chain_data)
    /\ chain # probe[1].chain
    /\ ret_bool = TRUE

\* C5: a candidate with an element after the first whose stored "hash" is not
\* the hash of its other fields is rejected: replace_chain returns False and
\* chain is what it was.
C5_CorruptRejected ==
    (/\ probe # <<>>
     /\ \E i \in 2..Len(probe[1].new_chain_data) :
          probe[1].new_chain_data[i].hash #
            CalculateHash(probe[1].new_chain_data[i])) =>
        /\ ret_bool = FALSE
        /\ chain = probe[1].chain

\* C11: in every reachable state every block of chain, the first included,
\* carries the hash of its current index, timestamp, data, previous_hash and
\* nonce; also the blocks from_dict built for an adopted candidate, whatever
\* "hash" their serialized form carried.
C11_HashNeverStale ==
    \A i \in 1..Len(chain) : chain[i].hash = CalculateHash(chain[i])

\* a candidate with an element whose "hash" is not that of its fields has
\* been adopted, and the block built from that element carries the right hash
C11_Witness ==
    /\ probe # <<>>
    /\ ret_bool = TRUE
    /\ chain = NewChain(probe[1].new_chain_data)
    /\ \E i \in 1..Len(chain) :
          /\ probe[1].new_chain_data[i].hash #
                CalculateHash(probe[1].new_chain_data[i])
          /\ chain[i].hash = CalculateHash(probe[1].new_chain_data[i])

---------------------------------------------------------------------------
(* The server with a mine that keeps running: an iteration of the nonce
   search that can be taken is taken, and so is the return from the search *)

SpecServerFair ==
    /\ Init
    /\ [][NextServer]_vars
    /\ WF_vars(PowStep /\ UNCHANGED <<raised, probe, tamper>>)
    /\ WF_vars(MineFinish /\ UNCHANGED <<raised, probe, tamper>>)

\* C14: for every difficulty >= 0, a mine_pending_data that has found pending
\* data and entered the nonce search eventually returns, with the block
\* appended.
C14_MiningTerminates == (pc = "mining") ~> (pc = "idle")

---------------------------------------------------------------------------
(* The server with a mine that may be abandoned inside the nonce search (an
   interrupt raised in the loop of _proof_of_work unwinds mine_pending_data) *)

\* the call is abandoned: its local new_block is dropped, nothing is assigned
Cancel ==
    /\ pc = "mining"
    /\ pc' = "idle"
    /\ new_block' = <<>>
    /\ op' = "cancelled"
    /\ ret_block' = <<>>
    /\ ret_bool' = FALSE
    /\ response' = ""
    /\ UNCHANGED <<chain, difficulty, pending_data, staged>>

NextCancel ==
    \/ LocalStep /\ UNCHANGED <<raised, probe, tamper>>
    \/ Cancel /\ UNCHANGED <<raised, probe, tamper>>

SpecCancel == Init /\ [][NextCancel]_vars

\* C15: every step of mine_pending_data up to the end of the nonce search,
\* and the abandoning of the call, leave chain and pending_data as they are;
\* chain changes only by the step that ends the search, which appends the
\* block, whose hash then begins with difficulty characters '0'.
C15_InterruptedMine ==
    [][/\ (pc' = "mining" \/ (pc = "mining" /\ pc' = "idle" /\ op' = "cancelled")) =>
            UNCHANGED <<chain, pending_data>>
       /\ chain' # chain =>
            /\ pc = "mining"
            /\ pc' = "idle"
            /\ chain' = Append(chain, new_block[1])
            /\ StartsWith(new_block[1].hash, Target(difficulty))]_vars

\* a mine that found P1 and P2 staged was abandoned: both are still pending
\* and no block was appended
C15_Witness ==
    /\ op = "cancelled"
    /\ pc = "idle"
    /\ pending_data = <<"P1", "P2">>
    /\ Len(chain) = 1

---------------------------------------------------------------------------
(* A fork: payloads are staged and mined, one call of replace_chain is
   observed (probe keeps its input and the ledger before it), and staging and
   mining go on *)

ObserveFork ==
    /\ pc = "idle"
    /\ \E c \in Candidates(chain, difficulty) :
          /\ ReplaceChain(c)
          /\ probe' = <<[new_chain_data |-> c, chain |-> chain,
                         pending_data |-> pending_data,
                         difficulty |-> difficulty]>>
    /\ UNCHANGED <<raised, tamper>>

NextFork ==
    \/ LocalStep /\ UNCHANGED <<raised, probe, tamper>>
    \/ probe = <<>> /\ ObserveFork

SpecFork == Init /\ [][NextFork]_vars

\* s is an initial part of t
IsPrefix(s, t) == Len(s) <= Len(t) /\ SubSeq(t, 1, Len(s)) = s

\* C20: replace_chain, adopting or rejecting, leaves pending_data and
\* difficulty as they were; the payloads pending at the call stay pending
\* until the next mine, which seals them in a block on top of the last block
\* of the chain the call left (the adopted one, if it adopted).
C20_ReplaceKeepsPending ==
    probe # <<>> =>
        LET cand == NewChain(probe[1].new_chain_data)
            adopted == /\ Len(cand) > Len(probe[1].chain)
                       /\ CandidateValid(cand, probe[1].difficulty)
            after == IF adopted THEN cand ELSE probe[1].chain
            n == Len(after)
        IN  /\ difficulty = probe[1].difficulty
            /\ op = "replace_chain" =>
                  chain = after /\ pending_data = probe[1].pending_data
            /\ Len(chain) = n =>
                  chain = after /\ IsPrefix(probe[1].pending_data, pending_data)
            /\ Len(chain) > n =>
                  /\ SubSeq(chain, 1, n) = after
                  /\ chain[n + 1].previous_hash = after[n].hash
                  /\ IsPrefix(probe[1].pending_data, chain[n + 1].data.val)

\* P1 was pending when a longer candidate was adopted, P2 was staged after,
\* and the next mine has sealed both on top of the adopted chain
C20_Witness ==
    /\ probe # <<>>
    /\ probe[1].pending_data = <<"P1">>
    /\ Len(probe[1].new_chain_data) > Len(probe[1].chain)
    /\ Len(chain) = Len(probe[1].new_chain_data) + 1
    /\ SubSeq(chain, 1, Len(chain) - 1) = NewChain(probe[1].new_chain_data)
    /\ chain[Len(chain)].data = List(<<"P1", "P2">>)
    /\ chain[Len(chain)].previous_hash = chain[Len(chain) - 1].hash
    /\ op = "mine_pending_data"

---------------------------------------------------------------------------
(* The server's protocol: the messages of a connection, handled one at a time
   (src/server.py).  A message is the sequence of its characters; "0xFF" is a
   byte that is not valid UTF-8.  probe holds the message received last and
   the ledger before it was handled. *)

InvalidByte == "0xFF"

LowerCase == <<"a", "d", "e", "g", "i", "m", "n">>
UpperCase == <<"A", "D", "E", "G", "I", "M", "N">>

\* str.upper, one character
UpperChar(ch) ==
    IF \E i \in 1..Len(LowerCase) : LowerCase[i] = ch
    THEN UpperCase[CHOOSE i \in 1..Len(LowerCase) : LowerCase[i] = ch]
    ELSE ch

\* str.upper
Upper(str) == [i \in 1..Len(str) |-> UpperChar(str[i])]

\* str.strip
RECURSIVE Strip(_)
Strip(str) ==
    IF str = <<>> THEN str
    ELSE IF str[1] = " " THEN Strip(Tail(str))
    ELSE IF str[Len(str)] = " " THEN Strip(SubSeq(str, 1, Len(str) - 1))
    ELSE str

\* the position of the first space of str from position i on, 0 if none
RECURSIVE FindSpace(_, _)
FindSpace(str, i) ==
    IF i > Len(str) THEN 0
    ELSE IF str[i] = " " THEN i
    ELSE FindSpace(str, i + 1)

\* message.split(" ", 1)
Split(message) ==
    LET k == FindSpace(message, 1)
    IN  IF k = 0 THEN <<message>>
        ELSE <<SubSeq(message, 1, k - 1), SubSeq(message, k + 1, Len(message))>>

\* message.startswith(prefix)
StrStartsWith(message, prefix) ==
    /\ Len(prefix) <= Len(message)
    /\ SubSeq(message, 1, Len(prefix)) = prefix

\* data.decode() raises UnicodeDecodeError
DecodeRaises(data) == \E i \in 1..Len(data) : data[i] = InvalidByte

\* the payload ADD stages: json.loads fails on these texts and the text
\* itself is staged
Transaction(data) ==
    CASE data = <<"P", "1">> -> "P1"
      [] data = <<"P", "2">> -> "P2"
      [] OTHER -> ""

\* the messages clients send
Messages ==
    {<<"A", "D", "D", " ", "P", "1">>, <<"a", "d", "d", " ", "P", "2">>, <<"A", "D", "D">>, <<"M", "I", "N", "E">>,
     <<" ", "m", "i", "n", "e", " ">>, <<"C", "H", "A", "I", "N">>, <<"V", "A", "L", "I", "D", "A", "T", "E">>,
     <<"L", "E", "N", "G", "T", "H">>, <<"F", "O", "O">>, <<"i", "m", "a", "g", "e", " ", "1">>,
     <<InvalidByte>>}

\* a branch of handle_command that only reads the ledger, or none
Reply(name, status) ==
    /\ op' = name
    /\ response' = status
    /\ ret_block' = <<>>
    /\ ret_bool' = FALSE
    /\ UNCHANGED <<chain, difficulty, pending_data, pc, new_block, staged>>

\* handle_command; MINE is the first step of mine_pending_data
HandleCommand(command, data) ==
    IF command = <<"A", "D", "D">> THEN AddData(Transaction(data))
    ELSE IF command = <<"M", "I", "N", "E">> THEN MineNothing \/ \E t \in Times : MineStart(t)
    ELSE IF command = <<"C", "H", "A", "I", "N">> THEN Reply("get_chain_data", "success")
    ELSE IF command = <<"V", "A", "L", "I", "D", "A", "T", "E">> THEN Validate
    ELSE IF command = <<"L", "E", "N", "G", "T", "H">> THEN Reply("len", "success")
    ELSE Reply("unknown", "error")

\* one round of the inner loop of run_server on the received bytes data
Receive(data) ==
    /\ pc = "idle"
    /\ probe' = <<[message |-> data, chain |-> chain,
                   pending_data |-> pending_data]>>
    /\ IF DecodeRaises(data)
       THEN /\ raised' = "UnicodeDecodeError"
            /\ UNCHANGED <<chain, difficulty, pending_data, pc, new_block, op,
                           ret_block, ret_bool, response, staged>>
       ELSE LET message == Strip(data)
                parts == Split(message)
                command == Upper(parts[1])
                cmd_data == IF Len(parts) > 1 THEN parts[2] ELSE <<>>
            IN  /\ raised' = ""
                /\ IF StrStartsWith(message, <<"i", "m", "a", "g", "e">>)
                   THEN Reply("image", "success")
                   ELSE HandleCommand(command, cmd_data)

\* the exception of decode() is caught nowhere: the server is gone
NextProtocol ==
    \/ raised = "" /\ (\E data \in Messages : Receive(data)) /\ UNCHANGED tamper
    \/ PowStep /\ UNCHANGED <<raised, probe, tamper>>
    \/ MineFinish /\ UNCHANGED <<raised, probe, tamper>>

SpecProtocol == Init /\ [][NextProtocol]_vars

\* the command word of a received message is none of the five commands
UnknownCommand(data) ==
    \/ DecodeRaises(data)
    \/ Upper(Split(Strip(data))[1]) \notin
          {<<"A", "D", "D">>, <<"M", "I", "N", "E">>, <<"C", "H", "A", "I", "N">>, <<"V", "A", "L", "I", "D", "A", "T", "E">>, <<"L", "E", "N", "G", "T", "H">>}

\* C16: a message whose command word is none of ADD, MINE, CHAIN, VALIDATE,
\* LENGTH is answered with status "error", leaves chain and pending_data as
\* they were, and the server goes on serving.
C16_UnknownRejected ==
    (probe # <<>> /\ UnknownCommand(probe[1].message)) =>
        /\ raised = ""
        /\ response = "error"
        /\ chain = probe[1].chain
        /\ pending_data = probe[1].pending_data

---------------------------------------------------------------------------
(* Candidates with an element that lacks a key: a run of the program, ended
   by the first call that raises *)

\* the keys Block.from_dict reads
ReadKeys == {"index", "timestamp", "data", "previous_hash", "nonce"}

\* the keys of a serialized block
Keys == ReadKeys \cup {"hash"}

\* the dict d without key k
DelKey(d, k) == [f \in DOMAIN d \ {k} |-> d[f]]

\* block_dict["..."] of from_dict raises KeyError
FromDictRaises(block_dict) == \E k \in ReadKeys : k \notin DOMAIN block_dict

\* the ledger's serialized chain, extended by honest peers, with one key
\* deleted from one element
Malformed(c, d) ==
    UNION {{[cand EXCEPT ![i] = DelKey(cand[i], k)] :
               i \in 1..Len(cand), k \in Keys} :
             cand \in Extensions(GetChainData(c), d, {})}

\* Blockchain.replace_chain on any list of dicts: the loop over
\* new_chain_data ends in the KeyError of from_dict, which nothing catches
ReplaceChainCall(new_chain_data) ==
    IF \E i \in 1..Len(new_chain_data) : FromDictRaises(new_chain_data[i])
    THEN /\ raised' = "KeyError"
         /\ op' = "replace_chain"
         /\ ret_block' = <<>>
         /\ ret_bool' = FALSE
         /\ response' = ""
         /\ UNCHANGED <<chain, difficulty, pending_data, pc, new_block, staged>>
    ELSE /\ ReplaceChain(new_chain_data)
         /\ raised' = ""

NextMalformed ==
    \/ raised = "" /\ Next
    \/ /\ raised = ""
       /\ pc = "idle"
       /\ \E c \in Malformed(chain, difficulty) : ReplaceChainCall(c)
       /\ UNCHANGED <<probe, tamper>>

SpecMalformed == Init /\ [][NextMalformed]_vars

\* C13: no call of replace_chain, add_data or mine_pending_data ends by
\* raising an exception, whatever the candidate list or the payload.
C13_NeverRaises == raised = ""

---------------------------------------------------------------------------
(* Two threads on one ledger: add_data runs at any point of an in-flight
   mine_pending_data (src/blockchain.py holds no lock) *)

ConcurrentStep ==
    \/ \E p \in Payloads : AddData(p)
    \/ MineNothing
    \/ \E t \in Times : MineStart(t)
    \/ PowStep
    \/ MineFinish

NextConcurrent == ConcurrentStep /\ UNCHANGED <<raised, probe, tamper>>

SpecConcurrent == Init /\ [][NextConcurrent]_vars

\* C8: when a mine_pending_data has completed, every payload passed to
\* add_data so far, also one passed while the mine was in flight, is exactly
\* once in a sealed block or in pending_data.
C8_NoLostEntry ==
    (pc = "idle" /\ op = "mine_pending_data" /\ ret_block # <<>>) =>
        Sealed(chain) \o pending_data = staged

---------------------------------------------------------------------------
(* The tamper tests: a run of the program, then one field of one sealed
   block is changed behind the program's back, then is_chain_valid is called *)

Fields == {"index", "timestamp", "data", "previous_hash", "nonce"}

\* block b with field f changed to another value, the stored hash kept
TamperField(b, f) ==
    CASE f = "index" -> [b EXCEPT !.index = b.index + 1]
      [] f = "timestamp" -> [b EXCEPT !.timestamp = b.timestamp + 1]
      [] f = "data" -> [b EXCEPT !.data = List(Append(b.data.val, "P2"))]
      [] f = "previous_hash" ->
            [b EXCEPT !.previous_hash =
                        IF b.previous_hash = Sentinel THEN b.hash ELSE Sentinel]
      [] f = "nonce" -> [b EXCEPT !.nonce = b.nonce + 1]

\* block.hash = block.calculate_hash(), done by the one who tampers
Rehash(b) == [b EXCEPT !.hash = CalculateHash(b)]

Tamper(kind) ==
    /\ tamper.kind = "none"
    /\ pc = "idle"
    /\ \E i \in 1..Len(chain), f \in Fields :
          /\ chain' = [chain EXCEPT ![i] =
                         IF kind = "rehash" THEN Rehash(TamperField(chain[i], f))
                         ELSE TamperField(chain[i], f)]
          /\ tamper' = [kind |-> kind, pos |-> i, field |-> f]
    /\ op' = "tamper"
    /\ ret_block' = <<>>
    /\ ret_bool' = FALSE
    /\ response' = ""
    /\ UNCHANGED <<difficulty, pending_data, pc, new_block, raised, staged, probe>>

ValidateTampered ==
    tamper.kind # "none" /\ Validate /\ UNCHANGED <<raised, probe, tamper>>

\* the ledger is one reached by add_data and mine_pending_data; the one who
\* tampers either leaves the stored hash or recomputes it
NextTamper ==
    \/ tamper.kind = "none" /\ LocalStep /\ UNCHANGED <<raised, probe, tamper>>
    \/ Tamper("norehash")
    \/ Tamper("rehash")
    \/ ValidateTampered

SpecTamper == Init /\ [][NextTamper]_vars

\* C9: after one of index, timestamp, data, previous_hash, nonce of a block
\* other than the first has been changed and its stored hash left as it was,
\* is_chain_valid returns False.
C9_TamperDetected ==
    (tamper.kind = "norehash" /\ tamper.pos >= 2 /\ op = "is_chain_valid") =>
        ret_bool = FALSE

\* the data of a sealed block was changed and validation has said False
C9_Witness ==
    /\ tamper.kind = "norehash"
    /\ tamper.pos >= 2
    /\ tamper.field = "data"
    /\ op = "is_chain_valid"
    /\ ret_bool = FALSE

\* C10, as claimed: after a field of any sealed block has been changed and
\* that block's hash recomputed, is_chain_valid returns False.
C10_RehashDetected ==
    (tamper.kind = "rehash" /\ op = "is_chain_valid") => ret_bool = FALSE

\* C10, amended: after a field of a sealed block that has a successor has
\* been changed and that block's hash recomputed, is_chain_valid returns
\* False.
C10_RehashDetectedWithSuccessor ==
    (tamper.kind = "rehash" /\ tamper.pos < Len(chain) /\ op = "is_chain_valid") =>
        ret_bool = FALSE

\* a block with a successor was changed and rehashed, and validation has
\* said False
C10_Witness ==
    /\ tamper.kind = "rehash"
    /\ tamper.pos >= 2
    /\ tamper.pos < Len(chain)
    /\ Rehash(chain[tamper.pos]) = chain[tamper.pos]
    /\ op = "is_chain_valid"
    /\ ret_bool = FALSE

====
